---- MODULE Spec2Model ----
(***************************************************************************)
(* Model of the promptbox request pipeline (dimfeld/movableprompt):        *)
(*   - run_template's streaming of a model response: the main thread       *)
(*     reads the backend's JSON lines (ollama::send_request) and pushes    *)
(*     each fragment into a flume::bounded(32) channel; a print thread     *)
(*     receives the fragments and writes them to the output;               *)
(*   - parse_template_args' binding of a template's options;               *)
(*   - the folding of the model options (config, template, CLI).           *)
(* Each part has its own specification over the module's variables; the    *)
(* variables of the other parts stay at their idle values.                 *)
(***************************************************************************)
EXTENDS Integers, Sequences, FiniteSets, TLC

VARIABLES
    \* ---- streaming (main.rs run_template, ollama.rs send_request) ----
    mpc,        \* main thread: request, read, send, join, ret_ok, ret_err, idle
    merr,       \* the ModelError send_request returned ("none" when none)
    cpc,        \* print thread: recv, write, flush, newline, done, failed, idle
    chan,       \* the fragments buffered in the flume channel, oldest first
    chunk,      \* the OllamaResponse decoded in this loop iteration
    nread,      \* how many lines of the body the reader has yielded
    emitted,    \* history: the response texts of the lines decoded so far
    doneSeen,   \* history: an earlier iteration decoded a unit with done = true
    received,   \* history: the fragments the print thread took from the channel
    cur,        \* the message the print thread holds ("" when it holds none)
    part,       \* how much of cur is in the output while it is being written
    written,    \* the output: the pieces written, the last maybe a part of cur
    txDropped,  \* message_tx has been dropped (send_request returned)
    rxDropped,  \* message_rx has been dropped (the for loop was left)
    exited,     \* the process has exited (main returned)
    \* ---- option binding (args.rs parse_template_args) ----
    options,    \* template.options: the declared option descriptors, in order
    cmdline,    \* per declared option, the value tokens the command line gives
    missing,    \* the paths that cannot be canonicalized
    unreadable, \* the paths that resolve and cannot be read
    bpc,        \* start, matched, done, error, idle
    parsed,     \* the ArgMatches: per option, the values clap holds for it
    bidx,       \* the binding loop's position in template.options
    context,    \* the evaluation context built so far (name -> JSON value)
    images,     \* the image attachments collected so far
    bresult,    \* the error parse_template_args returned, if any
    \* ---- model options (main.rs generate_template, option.rs) ----
    opc,           \* config, template, args, resolved, idle
    persisted,     \* what the persisted configuration sets, per field
    model_input,   \* what the template's model block sets (input.model)
    run_args,      \* what the CLI flags set (GlobalRunArgs)
    model_options, \* the ModelOptions being resolved
    \* ---- extra text (main.rs generate_template) ----
    epc,              \* prepend, stdin, place, append, done, error, idle
    template,         \* the template text being assembled
    prepend,          \* args.prepend (--pre), NoValue when not given
    append,           \* args.append (--post), NoValue when not given
    declared,         \* history: the extra strings the command line gave
    extra_prompt,     \* args.extra_prompt
    stdin,            \* standard input: a terminal, or piped text, or unreadable
    references_extra, \* what template_references_extra answers for the template
    extra,            \* the extra strings collected
    template_context  \* the context the template is rendered with

streamVars == <<mpc, merr, cpc, chan, chunk, nread, emitted, doneSeen,
                received, cur, part, written, txDropped, rxDropped, exited>>

bindVars == <<options, cmdline, missing, unreadable, bpc, parsed, bidx, context,
              images, bresult>>

optVars == <<opc, persisted, model_input, run_args, model_options>>

extraVars == <<epc, template, prepend, append, declared, extra_prompt, stdin,
               references_extra, extra, template_context>>

vars == <<streamVars, bindVars, optVars, extraVars>>

\* ------------------------------------------------------------------------
\* Bounds and constants
\* ------------------------------------------------------------------------

\* flume::bounded(32)
CAP == 32

\* The longest backend body explored, in lines.
MaxLines == 34

\* The response texts the backend's lines carry: line i carries
\* Frags[((i - 1) % 3) + 1].  The code never inspects a response text, so
\* the pattern only serves to tell the fragments apart.
Frags == <<"Hel", "lo", "">>

Response(i) == Frags[((i - 1) % Len(Frags)) + 1]

\* writeln!(output, "")
Newline == "\n"

NoChunk == [response |-> "", done |-> FALSE]

\* ------------------------------------------------------------------------
\* The channel (flume::bounded)
\* ------------------------------------------------------------------------

\* Faulty variant: a send never waits for room.
SendNoBound == TRUE

\* Sender::send returns: at once with an error when the receiver is gone,
\* otherwise as soon as the queue holds fewer than CAP messages.
SendReady == rxDropped \/ Len(chan) < CAP

\* The queue after a send: a disconnected channel takes nothing.
ChanPush(q, m) == IF rxDropped THEN q ELSE Append(q, m)

\* The receiving iterator ends: nothing is buffered and every sender is gone.
RecvEnd == chan = <<>> /\ txDropped

\* ------------------------------------------------------------------------
\* The output (std::io::stdout())
\* ------------------------------------------------------------------------

\* The longer prefixes of a message (the message itself among them) that
\* one more call of the writer can bring the output to, from the part of the
\* message that is in the output.
Further(message, in_output) ==
    CASE message = "Hel" /\ in_output = ""   -> {"H", "He", "Hel"}
      [] message = "Hel" /\ in_output = "H"  -> {"He", "Hel"}
      [] message = "Hel" /\ in_output = "He" -> {"Hel"}
      [] message = "lo"  /\ in_output = ""   -> {"l", "lo"}
      [] message = "lo"  /\ in_output = "l"  -> {"lo"}
      [] OTHER -> {}

\* The output once more of the message is in it: the piece of the message
\* that was last in the output grows, or the message's first piece is added.
PutInOutput(out, in_output, now) ==
    IF in_output = "" THEN Append(out, now)
    ELSE [out EXCEPT ![Len(out)] = now]

\* ------------------------------------------------------------------------
\* Main thread: send_model_request, then the join
\* ------------------------------------------------------------------------

\* ureq::post(..).send_json(..): the response arrives, or a transport or
\* status error is mapped and returned before any line is read.
Request ==
    /\ UNCHANGED <<bindVars, optVars, extraVars>>
    /\ mpc = "request"
    /\ \/ /\ mpc' = "read"
          /\ UNCHANGED <<merr, txDropped>>
       \/ /\ mpc' = "ret_err"
          /\ merr' = "Transport"
          /\ txDropped' = TRUE
    /\ UNCHANGED <<cpc, chan, chunk, nread, emitted, doneSeen, received, cur,
                   part, written, rxDropped, exited>>

\* One step of `for line in reader.lines()`: the next line decodes, or the
\* read fails (ModelError::Raw), or the line does not decode
\* (ModelError::Deserialize), or the body has ended.
ReadLine ==
    /\ UNCHANGED <<bindVars, optVars, extraVars>>
    /\ mpc = "read"
    /\ \/ \E d \in BOOLEAN :
             /\ nread < MaxLines
             /\ nread' = nread + 1
             /\ chunk' = [response |-> Response(nread + 1), done |-> d]
             /\ emitted' = Append(emitted, Response(nread + 1))
             /\ mpc' = "send"
             /\ UNCHANGED <<merr, txDropped>>
       \/ \E e \in {"Raw", "Deserialize"} :
             /\ mpc' = "ret_err"
             /\ merr' = e
             /\ txDropped' = TRUE
             /\ UNCHANGED <<nread, chunk, emitted>>
       \/ /\ mpc' = "join"
          /\ txDropped' = TRUE
          /\ UNCHANGED <<merr, nread, chunk, emitted>>
    /\ UNCHANGED <<cpc, chan, doneSeen, received, cur, part, written, rxDropped,
                   exited>>

\* message_tx.send(chunk.response).ok(): blocks while the channel is full,
\* and its result is discarded.
Send ==
    /\ UNCHANGED <<bindVars, optVars, extraVars>>
    /\ mpc = "send"
    /\ SendReady
    /\ chan' = ChanPush(chan, chunk.response)
    /\ doneSeen' = (doneSeen \/ chunk.done)
    /\ mpc' = "read"
    /\ UNCHANGED <<merr, cpc, chunk, nread, emitted, received, cur, part, written,
                   txDropped, rxDropped, exited>>

\* print_thread.join().unwrap().ok(); Ok(())
Join ==
    /\ UNCHANGED <<bindVars, optVars, extraVars>>
    /\ mpc = "join"
    /\ cpc \in {"done", "failed"}
    /\ mpc' = "ret_ok"
    /\ UNCHANGED <<merr, cpc, chan, chunk, nread, emitted, doneSeen, received,
                   cur, part, written, txDropped, rxDropped, exited>>

\* run and main return what run_template returned, and the process exits;
\* a print thread still running ends with it.  The exit flushes what stdout
\* still holds of the message being written (errors ignored, and nothing
\* when the flush cannot be done): the output stays as it is, or more of
\* the message comes into it.
Exit ==
    /\ UNCHANGED <<bindVars, optVars, extraVars>>
    /\ mpc \in {"ret_ok", "ret_err"}
    /\ ~exited
    /\ exited' = TRUE
    /\ \/ UNCHANGED <<part, written>>
       \/ \E now \in Further(cur, part) :
             /\ part' = now
             /\ written' = PutInOutput(written, part, now)
    /\ UNCHANGED <<mpc, merr, cpc, chan, chunk, nread, emitted, doneSeen,
                   received, cur, txDropped, rxDropped>>

\* ------------------------------------------------------------------------
\* Print thread
\* ------------------------------------------------------------------------

\* `for message in message_rx`: the next message, or the end of the loop.
Recv ==
    /\ UNCHANGED <<bindVars, optVars, extraVars>>
    /\ cpc = "recv"
    /\ ~exited
    /\ \/ /\ chan # <<>>
          /\ cur' = Head(chan)
          /\ chan' = Tail(chan)
          /\ received' = Append(received, Head(chan))
          /\ cpc' = "write"
          /\ UNCHANGED rxDropped
       \/ /\ RecvEnd
          /\ cpc' = "newline"
          /\ rxDropped' = TRUE
          /\ UNCHANGED <<cur, chan, received>>
    /\ UNCHANGED <<mpc, merr, chunk, nread, emitted, doneSeen, part, written,
                   txDropped, exited>>

\* write!(output, "{}", message)?: write_all calls the writer until it has
\* taken the whole message.  One step is one such call, which puts more of
\* the message in the output; or write_all returns Ok (what is not in the
\* output yet is held by the writer); or a call fails and the thread ends.
Write ==
    /\ UNCHANGED <<bindVars, optVars, extraVars>>
    /\ cpc = "write"
    /\ ~exited
    /\ \/ \E now \in Further(cur, part) :
             /\ part' = now
             /\ written' = PutInOutput(written, part, now)
             /\ UNCHANGED <<cpc, rxDropped>>
       \/ /\ cpc' = "flush"
          /\ UNCHANGED <<part, written, rxDropped>>
       \/ /\ cpc' = "failed"
          /\ rxDropped' = TRUE
          /\ UNCHANGED <<part, written>>
    /\ UNCHANGED <<mpc, merr, chan, chunk, nread, emitted, doneSeen, received,
                   cur, txDropped, exited>>

\* output.flush()?: the whole message is in the output, the message is
\* dropped and the loop goes on; or the flush fails, with what is in the
\* output already or more of the message, and the thread ends.
Flush ==
    /\ UNCHANGED <<bindVars, optVars, extraVars>>
    /\ cpc = "flush"
    /\ ~exited
    /\ \/ /\ written' = (IF part = cur /\ cur # "" THEN written
                          ELSE PutInOutput(written, part, cur))
          /\ part' = ""
          /\ cur' = ""
          /\ cpc' = "recv"
          /\ UNCHANGED rxDropped
       \/ /\ cpc' = "failed"
          /\ rxDropped' = TRUE
          /\ UNCHANGED cur
          /\ \/ UNCHANGED <<part, written>>
             \/ \E now \in Further(cur, part) :
                   /\ part' = now
                   /\ written' = PutInOutput(written, part, now)
    /\ UNCHANGED <<mpc, merr, chan, chunk, nread, emitted, doneSeen, received,
                   txDropped, exited>>

\* writeln!(output, "")?; Ok(())
WriteNewline ==
    /\ UNCHANGED <<bindVars, optVars, extraVars>>
    /\ cpc = "newline"
    /\ ~exited
    /\ \/ /\ written' = Append(written, Newline)
          /\ cpc' = "done"
       \/ /\ cpc' = "failed"
          /\ UNCHANGED written
    /\ UNCHANGED <<mpc, merr, chan, chunk, nread, emitted, doneSeen, received,
                   cur, part, txDropped, rxDropped, exited>>

\* ------------------------------------------------------------------------
\* Option binding: JSON values, descriptors and command lines
\* ------------------------------------------------------------------------

\* The most values one array option is given on the explored command lines.
MaxVals == 2

\* Option::None, and the serde_json values the context holds.
None == [kind |-> "none", text |-> "", items |-> <<>>]
Null == [kind |-> "null", text |-> "", items |-> <<>>]
JBool(b) == [kind |-> "bool", text |-> IF b THEN "true" ELSE "false", items |-> <<>>]
JNumber(t) == [kind |-> "number", text |-> t, items |-> <<>>]
JString(t) == [kind |-> "string", text |-> t, items |-> <<>>]
JArray(vs) == [kind |-> "array", text |-> "", items |-> vs]

\* template::OptionType
OptionTypes == {"String", "Number", "Integer", "Bool", "File", "Image"}

\* The names of the declared options, in template.options' order.
OptNames == <<"topic", "count">>

\* The value tokens a well-formed command line gives an option of each type;
\* a scalar Bool option is a flag and takes no value.
FlagToken == "--flag"
ValueTokens(type) ==
    CASE type = "String"  -> {"rust"}
      [] type = "Number"  -> {"1.5", "NaN"}
      [] type = "Integer" -> {"7"}
      [] type = "Bool"    -> {"true", "false"}
      [] type = "File"    -> {"sub/inner.txt"}
      [] type = "Image"   -> {"cat.png"}

Paths == {"sub/inner.txt", "cat.png"}

\* A default a template may declare for an option, as the JSON value given.
ScalarDefault(type) ==
    CASE type = "String"  -> JString("general")
      [] type = "Number"  -> JNumber("0.5")
      [] type = "Integer" -> JNumber("3")
      [] type = "Bool"    -> JBool(TRUE)
      [] type = "File"    -> JString("default.txt")
      [] type = "Image"   -> JString("default.png")

DeclaredDefault(type, array) ==
    IF array THEN JArray(<<ScalarDefault(type)>>) ELSE ScalarDefault(type)

\* template::PromptOption (without its name and description)
Descriptors ==
    { [option_type |-> t, array |-> a, optional |-> o,
       default |-> IF d THEN DeclaredDefault(t, a) ELSE None]
        : t \in OptionTypes, a \in BOOLEAN, o \in BOOLEAN, d \in BOOLEAN }

\* let action = match (option.array, option.option_type)
ArgActionOf(option) ==
    IF option.array THEN "Append"
    ELSE IF option.option_type = "Bool" THEN "SetTrue" ELSE "Set"

SeqsUpTo(S, n) == UNION { [1..k -> S] : k \in 0..n }

\* The value tokens a well-formed command line may give the option: a flag
\* or a scalar at most once, an array option up to MaxVals times.
Supplies(option) ==
    CASE ArgActionOf(option) = "SetTrue" -> {<<>>, <<FlagToken>>}
      [] ArgActionOf(option) = "Set" -> SeqsUpTo(ValueTokens(option.option_type), 1)
      [] OTHER -> SeqsUpTo(ValueTokens(option.option_type), MaxVals)

DeclaredArgs == UNION { { <<d, c>> : c \in Supplies(d) } : d \in Descriptors }

NOptions == Len(options)

\* ------------------------------------------------------------------------
\* Option binding: clap's parse
\* ------------------------------------------------------------------------

\* Faulty variant: an option marked optional is still required.
RequiredIgnoresOptional(option) ==
    option.option_type # "Bool" /\ option.default = None

\* .required(option_type != Bool && default.is_none() && !optional)
Required(option) ==
    /\ option.option_type # "Bool"
    /\ option.default = None
    /\ ~option.optional

\* Faulty variant: an absent flag has no value.
ClapValuesNoFlagDefault(option, tokens) ==
    IF ArgActionOf(option) = "SetTrue"
    THEN IF tokens # <<>> THEN <<"true">> ELSE <<>>
    ELSE tokens

\* The values the ArgMatches hold for an option: those given; for a SetTrue
\* flag, true when given and clap's implied default false when not.
ClapValues(option, tokens) ==
    IF ArgActionOf(option) = "SetTrue"
    THEN IF tokens # <<>> THEN <<"true">> ELSE <<"false">>
    ELSE tokens

\* The required arguments the command line does not give.
MissingRequired ==
    { options[i].name : i \in { j \in 1..NOptions :
          Required(options[j]) /\ cmdline[j] = <<>> } }

\* try_get_matches_from(cmdline).map_err(Error::from)?
ClapParse ==
    /\ bpc = "start"
    /\ IF MissingRequired # {}
       THEN /\ bpc' = "error"
            /\ bresult' = [kind |-> "CmdlineParseFailure",
                           clap |-> "MissingRequiredArgument",
                           names |-> MissingRequired,
                           attached |-> ""]
            /\ UNCHANGED <<parsed, bidx>>
       ELSE /\ bpc' = "matched"
            /\ parsed' = [i \in 1..NOptions |-> ClapValues(options[i], cmdline[i])]
            /\ bidx' = 1
            /\ UNCHANGED bresult
    /\ UNCHANGED <<options, cmdline, missing, unreadable, context, images>>
    /\ UNCHANGED <<streamVars, optVars, extraVars>>

\* ------------------------------------------------------------------------
\* Option binding: the context
\* ------------------------------------------------------------------------

\* The tokens value_parser!(f32) parses to a value that is not finite.
NonFinite == {"NaN", "inf", "-inf"}

\* The typed value clap parsed from a token, as a serde_json::Value: a
\* Number is an f32, and From<f32> gives null for one that is not finite.
ToJson(type, token) ==
    CASE type = "Bool" -> JBool(token = "true")
      [] type = "String" -> JString(token)
      [] type = "Number" -> IF token \in NonFinite THEN Null ELSE JNumber(token)
      [] OTHER -> JNumber(token)

\* context[name] = val
SetKey(ctx, name, val) == (name :> val) @@ ctx

\* Faulty variant: an option with neither a value nor a default gets no key.
AddValSkipsUnset(ctx, vals, name, option) ==
    IF vals = <<>> /\ option.default = None THEN ctx
    ELSE SetKey(ctx, name,
            IF option.array
            THEN IF vals # <<>>
                 THEN JArray([k \in 1..Len(vals) |-> ToJson(option.option_type, vals[k])])
                 ELSE option.default
            ELSE IF vals # <<>> THEN ToJson(option.option_type, vals[1])
                 ELSE option.default)

\* add_val_to_context: vals are the values the ArgMatches hold for the option
\* (remove_many and remove_one give None when there are none).
AddValToContext(ctx, vals, name, option) ==
    LET val ==
            IF option.array
            THEN IF vals # <<>>
                 THEN JArray([k \in 1..Len(vals) |-> ToJson(option.option_type, vals[k])])
                 ELSE IF option.default # None THEN option.default ELSE JArray(<<>>)
            ELSE IF vals # <<>> THEN ToJson(option.option_type, vals[1])
                 ELSE IF option.default # None THEN option.default ELSE Null
    IN  SetKey(ctx, name, val)

\* path.file_name(): the last component of the path.
FileName(path) ==
    CASE path = "sub/inner.txt" -> "inner.txt"
      [] OTHER -> path

\* create_file_object: {filename, path, contents}
FileObject(path) ==
    [kind |-> "object", text |-> "",
     items |-> <<JString(FileName(path)), JString(path),
                 JString("contents of " \o path)>>]

\* The directory the paths are resolved in.
BaseDir == "/base"

\* base_dir.join(path).canonicalize() of a path that resolves: the absolute
\* path under base_dir.
Canonical(path) == BaseDir \o "/" \o path

\* What is attached to the error of a path that failed: read_image attaches
\* the path as given when it cannot be canonicalized and the canonical path
\* when the image cannot be read; create_file_object attaches nothing when
\* the path cannot be canonicalized, and a message with the path as given
\* when it cannot be read.
ImageAttached(path) ==
    IF path \in missing THEN path ELSE Canonical(path)
FileAttached(path) ==
    IF path \in missing THEN "" ELSE "Could not read file: " \o path

\* read_image
ImageData(path) == "image " \o path

\* One iteration of `for (name, option) in &template.options`.
BindOption ==
    /\ bpc = "matched"
    /\ bidx <= NOptions
    /\ LET option == options[bidx]
           name == option.name
           vals == parsed[bidx]
           given == IF option.array \/ vals = <<>> THEN vals ELSE <<vals[1]>>
           bad == { k \in 1..Len(given) : given[k] \in missing \cup unreadable }
           failed == bad # {}
           first == given[CHOOSE k \in bad : \A j \in bad : k <= j]
       IN  CASE option.option_type \in {"Bool", "Number", "Integer", "String"} ->
                  /\ context' = AddValToContext(context, vals, name, option)
                  /\ bidx' = bidx + 1
                  /\ UNCHANGED <<bpc, images, bresult>>
             [] option.option_type = "Image" ->
                  IF failed
                  THEN /\ bpc' = "error"
                       /\ bresult' = [kind |-> "ArgParseFailure", clap |-> "",
                                      names |-> {},
                                      attached |-> ImageAttached(first)]
                       /\ UNCHANGED <<bidx, context, images>>
                  ELSE /\ images' = images \o [k \in 1..Len(given) |-> ImageData(given[k])]
                       /\ bidx' = bidx + 1
                       /\ UNCHANGED <<bpc, context, bresult>>
             [] option.option_type = "File" ->
                  IF failed
                  THEN /\ bpc' = "error"
                       /\ bresult' = [kind |-> "ArgParseFailure", clap |-> "",
                                      names |-> {},
                                      attached |-> FileAttached(first)]
                       /\ UNCHANGED <<bidx, context, images>>
                  ELSE /\ context' = SetKey(context, name,
                              IF option.array
                              THEN JArray([k \in 1..Len(given) |-> FileObject(given[k])])
                              ELSE IF given # <<>> THEN FileObject(given[1]) ELSE Null)
                       /\ bidx' = bidx + 1
                       /\ UNCHANGED <<bpc, images, bresult>>
    /\ UNCHANGED <<options, cmdline, missing, unreadable, parsed>>
    /\ UNCHANGED <<streamVars, optVars, extraVars>>

\* GlobalRunArgs::from_arg_matches_mut(&mut parsed)?; Ok((global_args, context, images))
FinishBind ==
    /\ bpc = "matched"
    /\ bidx > NOptions
    /\ bpc' = "done"
    /\ bresult' = [kind |-> "ok", clap |-> "", names |-> {}, attached |-> ""]
    /\ UNCHANGED <<options, cmdline, missing, unreadable, parsed, bidx, context, images>>
    /\ UNCHANGED <<streamVars, optVars, extraVars>>

NoResult == [kind |-> "none", clap |-> "", names |-> {}, attached |-> ""]

\* The binding is not running.
BindIdle ==
    /\ options = <<>>
    /\ cmdline = <<>>
    /\ missing = {}
    /\ unreadable = {}
    /\ bpc = "idle"
    /\ parsed = <<>>
    /\ bidx = 0
    /\ context = <<>>
    /\ images = <<>>
    /\ bresult = NoResult

\* parse_template_args is called with a template and a command line.
BindInit ==
    /\ \E n \in 0..Len(OptNames) : \E args \in [1..n -> DeclaredArgs] :
          /\ options = [i \in 1..n |->
                           [name |-> OptNames[i],
                            option_type |-> args[i][1].option_type,
                            array |-> args[i][1].array,
                            optional |-> args[i][1].optional,
                            default |-> args[i][1].default]]
          /\ cmdline = [i \in 1..n |-> args[i][2]]
    /\ missing \in SUBSET Paths
    /\ unreadable \in SUBSET (Paths \ missing)
    /\ bpc = "start"
    /\ parsed = <<>>
    /\ bidx = 0
    /\ context = <<>>
    /\ images = <<>>
    /\ bresult = NoResult

\* ------------------------------------------------------------------------
\* Model options: config, then the template's model block, then the CLI
\* ------------------------------------------------------------------------

\* Option::None of a layer's field.
NoValue == "(none)"

\* The fields followed: temperature is a plain value (f32) of ModelOptions,
\* format an Option<OutputFormat>; GlobalRunArgs has a flag for each.
Fields == {"temperature", "format"}

FieldValues(f) == IF f = "temperature" THEN {"0.2", "0.9"} ELSE {"json", "text"}

\* A layer: per field, a value or nothing.
Layers == [temperature : FieldValues("temperature") \cup {NoValue},
           format : FieldValues("format") \cup {NoValue}]

\* The backend defaults ModelOptions starts from.
BackendDefault == [temperature |-> "0.0", format |-> NoValue]

\* Faulty variant: the other value is copied even when it is None.
OverwriteAlways(self_value, other_value) == other_value

\* overwrite_from_option
OverwriteFromOption(self_value, other_value) ==
    IF other_value # NoValue THEN other_value ELSE self_value

\* overwrite_option_from_option
OverwriteOptionFromOption(self_value, other_value) ==
    IF other_value # NoValue THEN other_value ELSE self_value

\* A layer folded over the options, field by field.
UpdateFrom(opts, layer) ==
    [temperature |-> OverwriteFromOption(opts.temperature, layer.temperature),
     format |-> OverwriteOptionFromOption(opts.format, layer.format)]

\* Config::from_directory: config.model is the backend defaults with the
\* persisted configuration folded over them.
ConfigFromDirectory ==
    /\ opc = "config"
    /\ model_options' = UpdateFrom(BackendDefault, persisted)
    /\ opc' = "template"
    /\ UNCHANGED <<persisted, model_input, run_args>>
    /\ UNCHANGED <<streamVars, bindVars, extraVars>>

\* model_options.update_from_model_input(&input.model)
UpdateFromModelInput ==
    /\ opc = "template"
    /\ model_options' = UpdateFrom(model_options, model_input)
    /\ opc' = "args"
    /\ UNCHANGED <<persisted, model_input, run_args>>
    /\ UNCHANGED <<streamVars, bindVars, extraVars>>

\* model_options.update_from_args(&args)
UpdateFromArgs ==
    /\ opc = "args"
    /\ model_options' = UpdateFrom(model_options, run_args)
    /\ opc' = "resolved"
    /\ UNCHANGED <<persisted, model_input, run_args>>
    /\ UNCHANGED <<streamVars, bindVars, extraVars>>

\* The options are not being resolved.
OptIdle ==
    /\ opc = "idle"
    /\ persisted = [temperature |-> NoValue, format |-> NoValue]
    /\ model_input = [temperature |-> NoValue, format |-> NoValue]
    /\ run_args = [temperature |-> NoValue, format |-> NoValue]
    /\ model_options = BackendDefault

\* generate_template starts with some configuration, template and flags.
OptInit ==
    /\ opc = "config"
    /\ persisted \in Layers
    /\ model_input \in Layers
    /\ run_args \in Layers
    /\ model_options = BackendDefault

\* ------------------------------------------------------------------------
\* Extra text: --pre, the extra strings, piped standard input, --post
\* ------------------------------------------------------------------------

\* The most extra strings on the explored command lines.
MaxExtras == 2

\* The separator of format!("{a}\n\n{b}") and of extra.join("\n\n").
Sep == "\n\n"

\* The template body found for the run.
TemplateBody == "Summarize."

\* The strings a command line may give as extra strings (one may be empty).
ExtraStrings == {"", "one", "two"}

\* Standard input: a terminal, or a pipe that gives text (maybe none) or fails.
Stdins ==
    { [terminal |-> TRUE, readable |-> TRUE, value |-> ""],
      [terminal |-> FALSE, readable |-> TRUE, value |-> ""],
      [terminal |-> FALSE, readable |-> TRUE, value |-> "piped"],
      [terminal |-> FALSE, readable |-> FALSE, value |-> ""] }

\* The context parse_template_args returned.
BoundContext == SetKey(<<>>, "topic", JString("rust"))

\* extra.join("\n\n")
RECURSIVE JoinExtra(_)
JoinExtra(strs) ==
    IF strs = <<>> THEN ""
    ELSE IF Len(strs) = 1 THEN strs[1]
    ELSE strs[1] \o Sep \o JoinExtra(Tail(strs))

\* Faulty variant: the piped text is put before the declared extra strings.
StdinFirst(strs, stdin_value) ==
    IF stdin_value # "" THEN <<stdin_value>> \o strs ELSE strs

\* if !stdin_value.is_empty() { extra.push(stdin_value) }
PushStdin(strs, stdin_value) ==
    IF stdin_value # "" THEN Append(strs, stdin_value) ELSE strs

\* let mut template = match args.prepend.as_ref() { .. }
Prepend ==
    /\ epc = "prepend"
    /\ template' = IF prepend # NoValue THEN prepend \o Sep \o template
                   ELSE template
    /\ epc' = "stdin"
    /\ UNCHANGED <<prepend, append, declared, extra_prompt, stdin,
                   references_extra, extra, template_context>>
    /\ UNCHANGED <<streamVars, bindVars, optVars>>

\* let mut extra = std::mem::take(&mut args.extra_prompt), which leaves
\* args.extra_prompt empty; then standard input is read when it is not a
\* terminal (a failed read returns Error::Io).
ReadStdin ==
    /\ epc = "stdin"
    /\ extra_prompt' = <<>>
    /\ IF stdin.terminal
       THEN /\ extra' = extra_prompt
            /\ epc' = "place"
       ELSE IF ~stdin.readable
       THEN /\ extra' = extra_prompt
            /\ epc' = "error"
       ELSE /\ extra' = PushStdin(extra_prompt, stdin.value)
            /\ epc' = "place"
    /\ UNCHANGED <<template, prepend, append, declared, stdin,
                   references_extra, template_context>>
    /\ UNCHANGED <<streamVars, bindVars, optVars>>

\* let extra_content = extra.join("\n\n"); then the extra text is inserted
\* in the context, or added to the template, or neither.
PlaceExtra ==
    /\ epc = "place"
    /\ LET extra_content == JoinExtra(extra) IN
       IF references_extra
       THEN /\ template_context' = SetKey(template_context, "extra",
                                          JString(extra_content))
            /\ UNCHANGED template
       ELSE IF extra_content # ""
       THEN /\ template' = template \o Sep \o extra_content
            /\ UNCHANGED template_context
       ELSE UNCHANGED <<template, template_context>>
    /\ epc' = "append"
    /\ UNCHANGED <<prepend, append, declared, extra_prompt, stdin,
                   references_extra, extra>>
    /\ UNCHANGED <<streamVars, bindVars, optVars>>

\* let template = match args.append.as_ref() { .. }
AppendPost ==
    /\ epc = "append"
    /\ template' = IF append # NoValue THEN template \o Sep \o append
                   ELSE template
    /\ epc' = "done"
    /\ UNCHANGED <<prepend, append, declared, extra_prompt, stdin,
                   references_extra, extra, template_context>>
    /\ UNCHANGED <<streamVars, bindVars, optVars>>

\* The template text is not being assembled.
ExtraIdle ==
    /\ epc = "idle"
    /\ template = ""
    /\ prepend = NoValue
    /\ append = NoValue
    /\ declared = <<>>
    /\ extra_prompt = <<>>
    /\ stdin = [terminal |-> TRUE, readable |-> TRUE, value |-> ""]
    /\ references_extra = FALSE
    /\ extra = <<>>
    /\ template_context = <<>>

\* generate_template has found the template and bound the arguments.
ExtraInit ==
    /\ epc = "prepend"
    /\ template = TemplateBody
    /\ prepend \in {NoValue, "Be brief."}
    /\ append \in {NoValue, "Thanks."}
    /\ declared \in SeqsUpTo(ExtraStrings, MaxExtras)
    /\ extra_prompt = declared
    /\ stdin \in Stdins
    /\ references_extra \in BOOLEAN
    /\ extra = <<>>
    /\ template_context = BoundContext

\* ------------------------------------------------------------------------
\* Specification of the streaming part
\* ------------------------------------------------------------------------

StreamInit ==
    /\ mpc = "request"
    /\ merr = "none"
    /\ cpc = "recv"
    /\ chan = <<>>
    /\ chunk = NoChunk
    /\ nread = 0
    /\ emitted = <<>>
    /\ doneSeen = FALSE
    /\ received = <<>>
    /\ cur = ""
    /\ part = ""
    /\ written = <<>>
    /\ txDropped = FALSE
    /\ rxDropped = FALSE
    /\ exited = FALSE

Init == StreamInit /\ BindIdle /\ OptIdle /\ ExtraIdle

Next ==
    \/ Request
    \/ ReadLine
    \/ Send
    \/ Join
    \/ Exit
    \/ Recv
    \/ Write
    \/ Flush
    \/ WriteNewline

Spec == Init /\ [][Next]_vars

\* The scheduler runs every thread that can take a step, and a body of at
\* most MaxLines lines ends.
FairSpec ==
    /\ Spec
    /\ WF_vars(Request) /\ WF_vars(ReadLine) /\ WF_vars(Send) /\ WF_vars(Join)
    /\ WF_vars(Recv) /\ WF_vars(Write) /\ WF_vars(Flush) /\ WF_vars(WriteNewline)

\* ------------------------------------------------------------------------
\* Specification of the option binding
\* ------------------------------------------------------------------------

StreamIdle ==
    /\ mpc = "idle"
    /\ merr = "none"
    /\ cpc = "idle"
    /\ chan = <<>>
    /\ chunk = NoChunk
    /\ nread = 0
    /\ emitted = <<>>
    /\ doneSeen = FALSE
    /\ received = <<>>
    /\ cur = ""
    /\ part = ""
    /\ written = <<>>
    /\ txDropped = FALSE
    /\ rxDropped = FALSE
    /\ exited = FALSE

InitBind == BindInit /\ StreamIdle /\ OptIdle /\ ExtraIdle

NextBind ==
    \/ ClapParse
    \/ BindOption
    \/ FinishBind

SpecBind == InitBind /\ [][NextBind]_vars

\* ------------------------------------------------------------------------
\* Specification of the model options
\* ------------------------------------------------------------------------

InitOptions == OptInit /\ StreamIdle /\ BindIdle /\ ExtraIdle

NextOptions ==
    \/ ConfigFromDirectory
    \/ UpdateFromModelInput
    \/ UpdateFromArgs

SpecOptions == InitOptions /\ [][NextOptions]_vars

\* ------------------------------------------------------------------------
\* Specification of the extra text
\* ------------------------------------------------------------------------

InitExtra == ExtraInit /\ StreamIdle /\ BindIdle /\ OptIdle

NextExtra ==
    \/ Prepend
    \/ ReadStdin
    \/ PlaceExtra
    \/ AppendPost

SpecExtra == InitExtra /\ [][NextExtra]_vars

\* ------------------------------------------------------------------------
\* Helpers of the properties
\* ------------------------------------------------------------------------

IsPrefix(s, t) == Len(s) <= Len(t) /\ SubSeq(t, 1, Len(s)) = s

RECURSIVE ConcatAll(_)
ConcatAll(s) == IF s = <<>> THEN "" ELSE Head(s) \o ConcatAll(Tail(s))

\* The fragments written, without the trailing newline.
FragmentsWritten == SelectSeq(written, LAMBDA x : x # Newline)

\* The fragment the producer holds while it waits in send.
InFlight == IF mpc = "send" THEN <<chunk.response>> ELSE <<>>

ConsumerEnded == cpc \in {"done", "failed"}

\* Some send was discarded: the receiver is gone and a response text that
\* was decoded is neither received, nor buffered, nor held by the producer.
Discarded ==
    rxDropped /\ Len(emitted) > Len(received) + Len(chan) + Len(InFlight)

\* ------------------------------------------------------------------------
\* C1
\* ------------------------------------------------------------------------

\* C1: once run_template has returned Ok (every line of the body was well
\* formed), the fragments the print thread received are exactly the lines'
\* response texts in emission order, and the text it wrote is their
\* concatenation.
C1_StreamingOrder ==
    mpc = "ret_ok" =>
        /\ received = emitted
        /\ ConcatAll(FragmentsWritten) = ConcatAll(emitted)

\* ------------------------------------------------------------------------
\* C2
\* ------------------------------------------------------------------------

\* C2: when send_model_request failed in the middle of the stream and
\* run_template has returned the error, the print thread has ended.
C2_ErrorAfterJoin ==
    (mpc = "ret_err" /\ merr \in {"Raw", "Deserialize"} /\ nread > 0)
        => ConsumerEnded

\* ------------------------------------------------------------------------
\* C3
\* ------------------------------------------------------------------------

\* C3: the channel never buffers more than CAP = 32 fragments; with the
\* receiver connected the producer's send cannot complete while the channel
\* is full; the print thread cannot take a message from an empty channel
\* (it waits while a sender remains).
C3_Backpressure ==
    /\ Len(chan) <= CAP
    /\ (mpc = "send" /\ ~rxDropped /\ Len(chan) >= CAP => ~ENABLED Send)
    /\ (cpc = "recv" /\ chan = <<>> /\ ~txDropped => ~ENABLED Recv)

\* The producer waits in send on a full channel.
C3_Witness == mpc = "send" /\ Len(chan) = CAP /\ ~rxDropped /\ cpc = "write"

\* ------------------------------------------------------------------------
\* C4
\* ------------------------------------------------------------------------

\* C4: once the producer has decoded a unit with done = true, no fragment of
\* a later unit is put into the channel.
C4_NoPushAfterDone == [][doneSeen => Len(chan') <= Len(chan)]_vars

\* ------------------------------------------------------------------------
\* C5
\* ------------------------------------------------------------------------

\* C5: after the print thread has failed (its receiver is dropped), a send
\* never blocks, even on a full channel; it puts nothing into the channel and
\* is not reported as an error; the producer detects the disconnected
\* consumer and leaves its loop: once a send was discarded it reads no
\* further line; and the main thread always comes to return (no deadlock).
C5_ClosedConsumer ==
    /\ [](cpc = "failed" /\ mpc = "send" => ENABLED Send)
    /\ [][cpc = "failed" /\ mpc = "send" /\ mpc' # mpc
            => merr' = merr /\ chan' = chan]_vars
    /\ [][Discarded => nread' = nread]_vars
    /\ (cpc = "failed" ~> mpc \in {"ret_ok", "ret_err"})

\* ------------------------------------------------------------------------
\* C6
\* ------------------------------------------------------------------------

\* C6: when the body ended without error and run_template has returned Ok,
\* the print thread has ended normally and the output holds every fragment
\* and then exactly one newline.
C6_Termination ==
    mpc = "ret_ok" =>
        /\ cpc = "done"
        /\ written = emitted \o <<Newline>>

\* ------------------------------------------------------------------------
\* C7
\* ------------------------------------------------------------------------

\* The command line gives no value for declared option i.
Omitted(i) == cmdline[i] = <<>>

\* The claim's rule: not Bool, no default, not marked optional.
Mandatory(option) ==
    option.option_type # "Bool" /\ option.default = None /\ ~option.optional

\* A path the command line gives for a File or Image option cannot be read.
UnreadableGiven(i) ==
    /\ options[i].option_type \in {"File", "Image"}
    /\ \E k \in 1..Len(cmdline[i]) : cmdline[i][k] \in missing \cup unreadable

\* C7: once clap has parsed the command line, every mandatory option that
\* was omitted has made the binding fail with clap's missing-required
\* error, which names it; an omitted option that is Bool, has a default or
\* is optional is never named by that error, and when no mandatory option
\* is omitted and every given path is readable the binding does not fail.
C7_RequiredOptions ==
    bpc # "start" =>
        /\ \A i \in 1..NOptions :
              Mandatory(options[i]) /\ Omitted(i) =>
                  /\ bpc = "error"
                  /\ bresult.kind = "CmdlineParseFailure"
                  /\ bresult.clap = "MissingRequiredArgument"
                  /\ options[i].name \in bresult.names
        /\ \A i \in 1..NOptions :
              ~Mandatory(options[i]) =>
                  ~(bresult.kind = "CmdlineParseFailure"
                      /\ options[i].name \in bresult.names)
        /\ (\A i \in 1..NOptions :
                /\ ~(Mandatory(options[i]) /\ Omitted(i))
                /\ ~UnreadableGiven(i))
              => bpc # "error"

\* The spec's scenario: a required String option "topic" is omitted, beside
\* an omitted optional option; the error names "topic" alone.
C7_Witness ==
    /\ bpc = "error"
    /\ NOptions = 2
    /\ options[1].option_type = "String" /\ ~options[1].array
    /\ Mandatory(options[1]) /\ Omitted(1)
    /\ options[2].optional /\ options[2].default = None /\ Omitted(2)
    /\ bresult.kind = "CmdlineParseFailure"
    /\ bresult.names = {"topic"}

\* ------------------------------------------------------------------------
\* C8
\* ------------------------------------------------------------------------

EmptyArray == JArray(<<>>)

\* C8 as stated: after a successful binding the context has an entry for
\* every declared option, of every type, and an omitted option's entry is
\* its declared default, else an empty array (array) or null (scalar).
C8_Original ==
    bpc = "done" =>
        \A i \in 1..NOptions :
            /\ options[i].name \in DOMAIN context
            /\ Omitted(i) =>
                 context[options[i].name] =
                     IF options[i].default # None THEN options[i].default
                     ELSE IF options[i].array THEN EmptyArray ELSE Null

\* C8 amended: after a successful binding the context has an entry for every
\* declared option that is not of type Image, and none for an Image option;
\* an omitted scalar Bool option's entry is false, an omitted File option's
\* entry is an empty array or null whatever its default, and any other
\* omitted option's entry is its declared default, else an empty array
\* (array) or null (scalar).
C8_ContextEntries ==
    bpc = "done" =>
        /\ DOMAIN context \subseteq { options[i].name : i \in 1..NOptions }
        /\ \A i \in 1..NOptions :
              LET o == options[i] IN
              IF o.option_type = "Image"
              THEN o.name \notin DOMAIN context
              ELSE /\ o.name \in DOMAIN context
                   /\ Omitted(i) =>
                        context[o.name] =
                            IF o.option_type = "Bool" /\ ~o.array THEN JBool(FALSE)
                            ELSE IF o.option_type = "File"
                                 THEN IF o.array THEN EmptyArray ELSE Null
                            ELSE IF o.default # None THEN o.default
                            ELSE IF o.array THEN EmptyArray ELSE Null

\* An omitted scalar Number option got its default, and an omitted array
\* String option without a default got an empty array.
C8_Witness ==
    /\ bpc = "done"
    /\ NOptions = 2
    /\ options[1].option_type = "Number" /\ ~options[1].array
    /\ options[1].default # None /\ Omitted(1)
    /\ context["topic"] = options[1].default
    /\ options[2].option_type = "String" /\ options[2].array
    /\ options[2].default = None /\ Omitted(2)
    /\ context["count"] = EmptyArray

\* ------------------------------------------------------------------------
\* C9
\* ------------------------------------------------------------------------

\* C9 as stated: after a successful binding every omitted Bool option,
\* array or scalar, has the value false in the context.
C9_Original ==
    bpc = "done" =>
        \A i \in 1..NOptions :
            options[i].option_type = "Bool" /\ Omitted(i) =>
                /\ options[i].name \in DOMAIN context
                /\ context[options[i].name] = JBool(FALSE)

\* C9 amended: after a successful binding every omitted Bool option has an
\* entry in the context: false for a scalar option, with or without a
\* declared default; for an array option its declared default, else an
\* empty array.
C9_BoolOmission ==
    bpc = "done" =>
        \A i \in 1..NOptions :
            options[i].option_type = "Bool" /\ Omitted(i) =>
                /\ options[i].name \in DOMAIN context
                /\ context[options[i].name] =
                       IF ~options[i].array THEN JBool(FALSE)
                       ELSE IF options[i].default # None THEN options[i].default
                       ELSE EmptyArray

\* An omitted scalar Bool option whose declared default is true got false.
C9_Witness ==
    /\ bpc = "done"
    /\ NOptions >= 1
    /\ options[1].option_type = "Bool" /\ ~options[1].array
    /\ options[1].default = JBool(TRUE) /\ Omitted(1)
    /\ context["topic"] = JBool(FALSE)

\* ------------------------------------------------------------------------
\* C10
\* ------------------------------------------------------------------------

\* The value of the highest layer that supplies one for field f.
Precedence(f) ==
    IF run_args[f] # NoValue THEN run_args[f]
    ELSE IF model_input[f] # NoValue THEN model_input[f]
    ELSE IF persisted[f] # NoValue THEN persisted[f]
    ELSE BackendDefault[f]

\* The layer folded in by the step taken from the current state.
LayerAt ==
    CASE opc = "config" -> persisted
      [] opc = "template" -> model_input
      [] OTHER -> run_args

\* C10: the resolved options hold, for every field, the value of the highest
\* layer that supplies one (CLI flag > template model block > persisted
\* configuration > backend default), and folding a layer that supplies
\* nothing for a field leaves the field unchanged.
C10_Precedence ==
    /\ [](opc = "resolved" => \A f \in Fields : model_options[f] = Precedence(f))
    /\ [][\A f \in Fields :
            opc \in {"template", "args"} /\ LayerAt[f] = NoValue
                => model_options'[f] = model_options[f]]_vars

\* The template's model block won over the persisted configuration for the
\* temperature, no flag being given, and the format came from the flag.
C10_Witness ==
    /\ opc = "resolved"
    /\ persisted.temperature = "0.2"
    /\ model_input.temperature = "0.9"
    /\ run_args.temperature = NoValue
    /\ model_options.temperature = "0.9"
    /\ model_input.format = "json"
    /\ run_args.format = "text"
    /\ model_options.format = "text"

\* ------------------------------------------------------------------------
\* C11
\* ------------------------------------------------------------------------

\* The extra strings in the claim's order: the declared ones, then the
\* piped text when there is some.
ExtrasInOrder ==
    IF ~stdin.terminal /\ stdin.value # ""
    THEN declared \o <<stdin.value>> ELSE declared

\* The template with the --pre text before it, and the --post text as added.
WithPre == IF prepend # NoValue THEN prepend \o Sep \o TemplateBody ELSE TemplateBody
PostPart == IF append # NoValue THEN Sep \o append ELSE ""

\* The joined extra text is in the context under "extra".
Injected ==
    /\ "extra" \in DOMAIN template_context
    /\ template_context["extra"] = JString(JoinExtra(ExtrasInOrder))

\* The joined extra text stands after the --pre text and the body and
\* before the --post text.
Concatenated ==
    template = WithPre \o Sep \o JoinExtra(ExtrasInOrder) \o PostPart

\* The template text was not extended by the extra text.
NotExtended == template = WithPre \o PostPart

\* The placement rule both statements share: piped text after the declared
\* extras; a referenced `extra` is injected and the text not extended;
\* otherwise non-empty extra text is concatenated between --pre and --post.
C11_Placement ==
    /\ extra = ExtrasInOrder
    /\ extra_prompt = <<>>
    /\ references_extra => Injected /\ NotExtended
    /\ (~references_extra /\ JoinExtra(ExtrasInOrder) # "")
          => Concatenated /\ "extra" \notin DOMAIN template_context

\* C11 as stated: the placement rule, and exactly one of injection and
\* concatenation has happened.
C11_Original ==
    epc = "done" =>
        /\ C11_Placement
        /\ ("extra" \in DOMAIN template_context) # (template # WithPre \o PostPart)

\* C11 amended: the placement rule, and never both injection and
\* concatenation; neither happens exactly when the template does not
\* reference `extra` and the joined extra text is empty.
C11_ExtraText ==
    epc = "done" =>
        /\ C11_Placement
        /\ ~("extra" \in DOMAIN template_context /\ template # WithPre \o PostPart)
        /\ ("extra" \notin DOMAIN template_context /\ NotExtended)
              <=> (~references_extra /\ JoinExtra(ExtrasInOrder) = "")
        /\ template_context["topic"] = BoundContext["topic"]

\* Piped text was placed after two declared extras and concatenated between
\* the --pre and the --post text.
C11_Witness ==
    /\ epc = "done"
    /\ ~references_extra
    /\ declared = <<"one", "two">>
    /\ extra_prompt = <<>>
    /\ stdin.value = "piped"
    /\ prepend # NoValue /\ append # NoValue
    /\ template = "Be brief.\n\nSummarize.\n\none\n\ntwo\n\npiped\n\nThanks."
    /\ "extra" \notin DOMAIN template_context

====
